---- MODULE Spec2Model ----
\* Model of src/app.py: the cleaning and percentile scoring pipeline that
\* main() runs on an uploaded table (clean_data, the empty check,
\* score_companies).
\*
\* A table (pandas DataFrame) is [cols |-> <<header, ...>>, rows |-> <<row, ...>>],
\* each row a tuple of cells aligned with cols.  A cell is a record
\* [t, s, v, d]: t = "null" (None / NaN), t = "str" (s is the text, a tuple of
\* one-character strings), t = "num" (the exact rational v / d, d > 0).
\*
\* CHOOSE x \in {e : v \in {d}} : TRUE reads "e, where v is d": d is
\* evaluated once, however often e uses it.
EXTENDS Integers, Sequences, FiniteSets, TLC

VARIABLES pc, df, cleaned_df, scored_df, err, scorer_calls

vars == <<pc, df, cleaned_df, scored_df, err, scorer_calls>>

\* ------------------------------------------------------------------ bounds
MaxRows == 3
MaxStrLen == 3

\* ------------------------------------------------------------------- cells
Null == [t |-> "null", s |-> <<>>, v |-> 0, d |-> 1]
Str(s) == [t |-> "str", s |-> s, v |-> 0, d |-> 1]
Rat(v, d) == [t |-> "num", s |-> <<>>, v |-> v, d |-> d]
Num(v) == Rat(v, 1)

\* pd.notnull(x)
NotNull(c) == c.t # "null"

\* Exact comparison of two numeric cells.
Leq(a, b) == a.v * b.d <= b.v * a.d
Lt(a, b) == a.v * b.d < b.v * a.d
Eq(a, b) == a.v * b.d = b.v * a.d

Range(f) == {f[i] : i \in DOMAIN f}

\* ----------------------------------------------------------------- strings
DigitSeq == <<"0", "1", "2", "3", "4", "5", "6", "7", "8", "9">>
Digits == Range(DigitSeq)
DigitOf(c) == CHOOSE n \in 0..9 : DigitSeq[n + 1] = c

RECURSIVE Replace(_, _, _)
\* str.replace(old, new): every non-overlapping occurrence, left to right.
Replace(s, old, new) ==
    IF Len(s) < Len(old) THEN s
    ELSE IF SubSeq(s, 1, Len(old)) = old
         THEN new \o Replace(SubSeq(s, Len(old) + 1, Len(s)), old, new)
         ELSE <<Head(s)>> \o Replace(Tail(s), old, new)

RECURSIVE LStrip(_)
LStrip(s) == IF s # <<>> /\ Head(s) = " " THEN LStrip(Tail(s)) ELSE s

RECURSIVE RStrip(_)
RStrip(s) ==
    IF s # <<>> /\ s[Len(s)] = " " THEN RStrip(SubSeq(s, 1, Len(s) - 1)) ELSE s

\* str.strip()
Strip(s) == RStrip(LStrip(s))

RECURSIVE DigitsVal(_)
\* Decimal value of a string of digits.
DigitsVal(s) ==
    IF s = <<>> THEN 0
    ELSE 10 * DigitsVal(SubSeq(s, 1, Len(s) - 1)) + DigitOf(s[Len(s)])

AllDigits(s) == \A i \in 1..Len(s) : s[i] \in Digits

\* Position of the first "." of s, 0 when there is none.
DotPos(s) ==
    IF \E i \in 1..Len(s) : s[i] = "."
    THEN CHOOSE i \in 1..Len(s) : s[i] = "." /\ \A j \in 1..(i - 1) : s[j] # "."
    ELSE 0

\* The unsigned part of a float literal: digits, optionally a "." and more
\* digits, at least one digit in all.  The fraction digits that occur are
\* the ".0" str() writes, so the value is the integer part.
UnsignedOk(s) ==
    LET p == DotPos(s) IN
    IF p = 0 THEN s # <<>> /\ AllDigits(s)
    ELSE /\ AllDigits(SubSeq(s, 1, p - 1))
         /\ AllDigits(SubSeq(s, p + 1, Len(s)))
         /\ Len(s) > 1

UnsignedVal(s) ==
    LET p == DotPos(s) IN
    IF p = 0 THEN DigitsVal(s) ELSE DigitsVal(SubSeq(s, 1, p - 1))

HasSign(s) == s # <<>> /\ Head(s) \in {"-", "+"}

\* float(s) accepts s (surrounding blanks are ignored); otherwise it raises
\* ValueError.  The literals are those the texts of the inputs can spell: a
\* sign, digits and "."; exponents, "_" and the words inf and nan are not.
FloatOk(s) ==
    LET u == Strip(s) IN UnsignedOk(IF HasSign(u) THEN Tail(u) ELSE u)

\* float(s) for an accepted s.
FloatVal(s) ==
    LET u == Strip(s) IN
    IF HasSign(u)
    THEN (IF Head(u) = "-" THEN -1 ELSE 1) * UnsignedVal(Tail(u))
    ELSE UnsignedVal(u)

RECURSIVE NatToStr(_)
\* Decimal digits of a natural number.
NatToStr(n) ==
    IF n < 10 THEN <<DigitSeq[n + 1]>>
    ELSE NatToStr(n \div 10) \o <<DigitSeq[(n % 10) + 1]>>

\* str(x) of a cell: a string is itself, a float prints as "<int>.0".
ToStr(c) ==
    IF c.t = "str" THEN c.s
    ELSE (IF c.v < 0 THEN <<"-">> ELSE <<>>)
         \o NatToStr(IF c.v < 0 THEN -c.v ELSE c.v) \o <<".", "0">>

\* Mutant of CurrencyText: "." removed as a thousands separator as well.
CurrencyTextNoDot(c) ==
    Strip(Replace(Replace(Replace(Replace(ToStr(c), <<"$">>, <<>>), <<",">>, <<>>),
                          <<".">>, <<>>),
                  <<" ", "-", " ">>, <<"0">>))

\* The text float() is given: str(x) without "$" and ",", " - " read as "0",
\* stripped.
CurrencyText(c) ==
    Strip(Replace(Replace(Replace(ToStr(c), <<"$">>, <<>>), <<",">>, <<>>),
                  <<" ", "-", " ">>, <<"0">>))

\* ------------------------------------------------------------------ tables
NRows(t) == Len(t.rows)
HasCol(t, h) == \E j \in 1..Len(t.cols) : t.cols[j] = h
ColIdx(t, h) ==
    CHOOSE j \in 1..Len(t.cols) :
        t.cols[j] = h /\ \A k \in 1..(j - 1) : t.cols[k] # h
\* df[h] as the sequence of its cells.
Col(t, h) == [i \in 1..NRows(t) |-> t.rows[i][ColIdx(t, h)]]

RECURSIVE Pick(_, _)
\* The elements of seq at the positions in S, in order.
Pick(seq, S) ==
    IF seq = <<>> THEN <<>>
    ELSE Pick(SubSeq(seq, 1, Len(seq) - 1), S)
         \o (IF Len(seq) \in S THEN <<seq[Len(seq)]>> ELSE <<>>)

RECURSIVE Cells(_, _)
\* The first n cells of a column (or of a row), as a sequence.
Cells(f, n) == IF n = 0 THEN <<>> ELSE Append(Cells(f, n - 1), f[n])

KeepRows(t, S) == CHOOSE w \in {[t EXCEPT !.rows = Pick(t.rows, K)] : K \in {S}} : TRUE
KeepCols(t, J) ==
    CHOOSE w \in {[cols |-> Pick(t.cols, K),
                   rows |-> Cells([i \in 1..NRows(t) |-> Pick(t.rows[i], K)], NRows(t))] :
                      K \in {J}} : TRUE

\* The assignments df[hs[k]] = vs[k], in turn, for distinct headers hs: a
\* column the frame has is overwritten in place, a new one is appended.
SetCols(t, hs, vs) ==
    CHOOSE w \in
        {[cols |-> cols,
          rows |-> Cells([i \in 1..NRows(t) |->
                            Cells([j \in 1..Len(cols) |->
                                      IF \E k \in 1..Len(hs) : hs[k] = cols[j]
                                      THEN v[CHOOSE k \in 1..Len(hs) : hs[k] = cols[j]][i]
                                      ELSE t.rows[i][j]],
                                  Len(cols))],
                         NRows(t))] :
            cols \in {t.cols \o Pick(hs, {k \in 1..Len(hs) : ~HasCol(t, hs[k])})},
            v \in {vs}} : TRUE

\* df[h] = vals
SetCol(t, h, vals) == SetCols(t, <<h>>, <<vals>>)

\* df.drop(columns = names)
DropCols(t, names) == KeepCols(t, {j \in 1..Len(t.cols) : t.cols[j] \notin names})

\* Mutant of Empty: the test "cleaned_df is None", false of every frame.
EmptyIsNone(t) == FALSE

\* df.empty
Empty(t) == NRows(t) = 0 \/ Len(t.cols) = 0

NoTable == [cols |-> <<>>, rows |-> <<>>]

\* -------------------------------------------------------------- clean_data
\* col.strip() on the headers the inputs use.
StripHeader(h) ==
    CASE h = " city " -> "city"
      [] h = " funding_total_usd " -> "funding_total_usd"
      [] h = "name " -> "name"
      [] OTHER -> h

\* rename_map
Rename(h) ==
    CASE h = "name" -> "Company Name"
      [] h = "category_list" -> "Category"
      [] h = "city" -> "City"
      [] h = "funding_total_usd" -> "Funding Amount"
      [] OTHER -> h

Mandatory == {"Company Name", "Category", "City"}
relevant_cols ==
    {"Company Name", "Category", "City", "Funding Amount", "funding_rounds",
     "founded_year"}
funding_types == <<"seed", "venture", "angel">>

\* One character of str.lower().
LowerChar(c) == CASE c = "A" -> "a" [] c = "B" -> "b" [] c = "C" -> "c" [] OTHER -> c
\* Series.str.lower() on one cell (a non-string gives NaN).
Lower(c) == IF c.t = "str" THEN Str([i \in 1..Len(c.s) |-> LowerChar(c.s[i])]) ELSE Null

\* df.columns = [col.strip() ...]; df = df.rename(columns = rename_map)
Renamed(t) == [t EXCEPT !.cols = [j \in 1..Len(t.cols) |-> Rename(StripHeader(t.cols[j]))]]

\* df.dropna(subset = [...], how = 'any')
DropIncomplete(t) ==
    KeepRows(t, {i \in 1..NRows(t) : \A h \in Mandatory : NotNull(Col(t, h)[i])})

\* Mutant of DropDuplicates: keep = 'last'.
DropDuplicatesKeepLast(t) ==
    LET key == [i \in 1..NRows(t) |-> Lower(Col(t, "Company Name")[i])] IN
    KeepRows(t, {i \in 1..NRows(t) : \A k \in (i + 1)..NRows(t) : key[k] # key[i]})

\* The 'Company Name Lower' key, drop_duplicates (keep = 'first'), and the
\* key column dropped again.
DropDuplicates(t) ==
    LET key == [i \in 1..NRows(t) |-> Lower(Col(t, "Company Name")[i])] IN
    KeepRows(t, {i \in 1..NRows(t) : \A k \in 1..(i - 1) : key[k] # key[i]})

\* A column read from text holds strings (dtype object), on which the .str
\* accessor works; on a column without any string it raises AttributeError.
IsText(cells) == \E i \in DOMAIN cells : cells[i].t = "str"

\* df.dropna(axis = 1, how = 'all')
DropNullCols(t) ==
    KeepCols(t, {j \in 1..Len(t.cols) : \E i \in 1..NRows(t) : NotNull(t.rows[i][j])})

\* The column allowlist.
Relevant(t) ==
    KeepCols(t, {j \in 1..Len(t.cols) :
                    t.cols[j] \in relevant_cols \/ t.cols[j] \in Range(funding_types)})

\* The lambda of the funding coercion accepts the cell.
CoerceOk(c) == NotNull(c) => FloatOk(CurrencyText(c))
\* Its value.
Coerce(c) == IF NotNull(c) THEN Num(FloatVal(CurrencyText(c))) ELSE Num(0)

\* clean_data(df): [err |-> "" and the cleaned table, or the exception].
clean_data(t) ==
    CHOOSE res \in
        {IF \E h \in Mandatory : ~HasCol(r, h) THEN [err |-> "KeyError", df |-> NoTable]
         ELSE IF ~IsText(Col(r, "Company Name")) THEN [err |-> "AttributeError", df |-> NoTable]
         ELSE CHOOSE res2 \in
            {IF ~HasCol(a, "Funding Amount")
             THEN [err |-> "",
                   df |-> SetCol(a, "Funding Amount", [i \in 1..NRows(a) |-> Num(0)])]
             ELSE IF \E i \in 1..NRows(a) : ~CoerceOk(Col(a, "Funding Amount")[i])
             THEN [err |-> "ValueError", df |-> NoTable]
             ELSE [err |-> "",
                   df |-> SetCol(a, "Funding Amount",
                                 [i \in 1..NRows(a) |-> Coerce(Col(a, "Funding Amount")[i])])] :
                a \in {Relevant(DropNullCols(DropDuplicates(DropIncomplete(r))))}} : TRUE :
            r \in {Renamed(t)}} : TRUE

\* --------------------------------------------------------- score_companies
\* pd.Timestamp.now().year
current_year == 2026

W_Funding == 50
W_Rounds == 20
W_Age == 15
W_FundingType == 15
ScoreCap == 100

\* pd.to_numeric(x, errors = 'coerce') of one cell.
ToNumeric(c) ==
    CASE c.t = "num" -> c
      [] c.t = "str" /\ FloatOk(c.s) -> Num(FloatVal(c.s))
      [] OTHER -> Null

\* Series.fillna(0) of one cell.
FillNa0(c) == IF NotNull(c) THEN c ELSE Num(0)

\* Series.clip(lower = 0) of one numeric cell.
ClipLower0(c) == IF c.v < 0 THEN Num(0) ELSE c

\* The Age column.
AgeCol(t) ==
    IF HasCol(t, "founded_year")
    THEN [i \in 1..NRows(t) |->
            LET y == ClipLower0(FillNa0(ToNumeric(Col(t, "founded_year")[i])))
            IN Rat(current_year * y.d - y.v, y.d)]
    ELSE [i \in 1..NRows(t) |-> Num(0)]

\* row[col] != 0
NonZero(c) == c.t = "str" \/ c.v # 0

\* The Funding Type Count column.
FundingTypeCountCol(t) ==
    [i \in 1..NRows(t) |->
        Num(Cardinality({k \in 1..Len(funding_types) :
                /\ HasCol(t, funding_types[k])
                /\ NotNull(Col(t, funding_types[k])[i])
                /\ NonZero(Col(t, funding_types[k])[i])}))]

\* The Rounds column (the frame has a funding_rounds column).
RoundsCol(t) == [i \in 1..NRows(t) |-> FillNa0(Col(t, "funding_rounds")[i])]

\* Mutant of TwiceRank: method = 'min', ties take their lowest position.
TwiceRankMin(vals, i) ==
    2 * (Cardinality({k \in DOMAIN vals : Lt(vals[k], vals[i])}) + 1)

\* Mutant of TwiceRank: ascending = False, the largest value ranks first.
TwiceRankDescending(vals, i) ==
    2 * Cardinality({k \in DOMAIN vals : Lt(vals[i], vals[k])})
    + Cardinality({k \in DOMAIN vals : Eq(vals[k], vals[i])}) + 1

\* Twice the average rank of vals[i] among vals (ties share the average of
\* the positions they occupy): rank = (#smaller) + (#equal + 1) / 2.
TwiceRank(vals, i) ==
    2 * Cardinality({k \in DOMAIN vals : Lt(vals[k], vals[i])})
    + Cardinality({k \in DOMAIN vals : Eq(vals[k], vals[i])}) + 1

\* Series.rank(pct = True) * w: the average rank over the row count, weighted.
RankPct(vals, w) ==
    CHOOSE r \in {Cells([i \in DOMAIN v |-> Rat(w * TwiceRank(v, i), 2 * Len(v))], Len(v)) :
                    v \in {Cells(vals, Len(vals))}} : TRUE

\* Mutant of TotalScore: clip(lower = 100).
TotalScoreClipLower(a, b, c, e) ==
    LET sum == a.v + b.v + c.v + e.v IN
    IF sum < ScoreCap * a.d THEN Rat(ScoreCap * a.d, a.d) ELSE Rat(sum, a.d)

\* (a + b + c + e).clip(upper = 100) over cells of one denominator.
TotalScore(a, b, c, e) ==
    LET sum == a.v + b.v + c.v + e.v IN
    IF sum > ScoreCap * a.d THEN Rat(ScoreCap * a.d, a.d) ELSE Rat(sum, a.d)

ScoreCols == <<"Funding Score", "Rounds Score", "Age Score", "Funding Type Score">>

\* Mutant of IdxMax: the last column holding the row's maximum.
IdxMaxLast(cells) ==
    CHOOSE k \in DOMAIN cells :
        /\ \A m \in DOMAIN cells : Leq(cells[m], cells[k])
        /\ \A m \in (k + 1)..Len(cells) : Lt(cells[m], cells[k])

\* idxmax(axis = 1): the first column holding the row's maximum.
IdxMax(cells) ==
    CHOOSE k \in DOMAIN cells :
        /\ \A m \in DOMAIN cells : Leq(cells[m], cells[k])
        /\ \A m \in 1..(k - 1) : Lt(cells[m], cells[k])

\* .str.replace(' Score', '') of a score column's name.
QualityName(h) ==
    CASE h = "Funding Score" -> "Funding"
      [] h = "Rounds Score" -> "Rounds"
      [] h = "Age Score" -> "Age"
      [] OTHER -> "Funding Type"

\* The four weighted percentile columns.
FundingScoreCol(t) == RankPct(Col(t, "Funding Amount"), W_Funding)
RoundsScoreCol(t) == RankPct(RoundsCol(t), W_Rounds)
AgeScoreCol(t) == RankPct(AgeCol(t), W_Age)
FundingTypeScoreCol(t) == RankPct(FundingTypeCountCol(t), W_FundingType)

\* The Score column, from the four sub-score columns.
ScoreCol(f, r, a, y) == [i \in DOMAIN f |-> TotalScore(f[i], r[i], a[i], y[i])]

\* The Top Quality column, from the four sub-score columns.
TopQualityCol(f, r, a, y) ==
    [i \in DOMAIN f |->
        CHOOSE q \in {Str(<<QualityName(ScoreCols[IdxMax(c)])>>) : c \in {<<f[i], r[i], a[i], y[i]>>}} :
            TRUE]

\* The frame after the two metric columns that precede the Rounds lookup.
WithMetrics(t) ==
    SetCols(t, <<"Age", "Funding Type Count">>, <<AgeCol(t), FundingTypeCountCol(t)>>)

\* The frame with every column score_companies assigns (each column is
\* computed once, then stored).
WithScores(t) ==
    CHOOSE w \in
        {SetCols(d,
                 <<"Age", "Funding Type Count", "Rounds">> \o ScoreCols
                     \o <<"Score", "Top Quality">>,
                 <<AgeCol(d), FundingTypeCountCol(d), RoundsCol(d), f, r, a, y,
                   ScoreCol(f, r, a, y), TopQualityCol(f, r, a, y)>>) :
            d \in {t},
            f \in {FundingScoreCol(t)},
            r \in {RoundsScoreCol(t)},
            a \in {AgeScoreCol(t)},
            y \in {FundingTypeScoreCol(t)}} : TRUE

Intermediate ==
    {"Age", "Funding Type Count", "Rounds", "Funding Score", "Rounds Score",
     "Age Score", "Funding Type Score"}

\* score_companies(df): the frame it was given, as it leaves it, and the frame
\* it returns, or the exception.
score_companies(t) ==
    IF ~HasCol(t, "funding_rounds")
    THEN [err |-> "KeyError", df |-> WithMetrics(t), out |-> NoTable]
    ELSE LET w == WithScores(t) IN [err |-> "", df |-> w, out |-> DropCols(w, Intermediate)]

\* ------------------------------------------------------------------ inputs
\* The uploaded tables pd.read_csv hands to main.
Alphabet == {"$", ",", " ", "-", "1", "a"}
\* (pd.read_csv reads an empty cell as NaN, never as the empty text.)
Texts == UNION {[1..k -> Alphabet] : k \in 1..MaxStrLen}

T == Str(<<"T">>)
N == Str(<<"N">>)
Ab == Str(<<"A", "b">>)

\* One record, every funding text: what the coercion does with each cell.
ParseTables ==
    {[cols |-> <<"name", "category_list", "city", "funding_total_usd", "funding_rounds">>,
      rows |-> <<(<<Ab, T, N, f, Num(1)>>)>>] :
        f \in {Str(x) : x \in Texts} \cup {Null, Num(1)}}

\* Incomplete and duplicate records under padded source headers; record i
\* carries i ones as its funding text.
DedupChoices ==
    {<<n, c>> : n \in {Null, Ab, Str(<<"a", "b">>), Str(<<"C">>)}, c \in {Null, T}}
DedupTables ==
    {[cols |-> <<"name ", "category_list", " city ", " funding_total_usd ", "funding_rounds">>,
      rows |-> [i \in 1..Len(c) |-> c[i] \o <<N, Str([k \in 1..i |-> "1"]), Num(1)>>]] :
        c \in UNION {[1..n -> DedupChoices] : n \in 1..MaxRows}}

\* Two records under every schema: optional columns absent, entirely null,
\* partly null; a mandatory column absent.
SchemaTables ==
    {[cols |-> (IF cat THEN <<"Company Name", "Category", "City">>
                ELSE <<"Company Name", "City">>) \o x.h,
      rows |-> <<(IF cat THEN <<Ab, T, N>> ELSE <<Ab, N>>) \o x.a,
                 (IF cat THEN <<Str(<<"C">>), T, N>> ELSE <<Str(<<"C">>), N>>) \o x.b>>] :
        cat \in BOOLEAN,
        x \in {[h |-> fa.h \o fr.h \o fy.h \o sd.h,
                a |-> fa.a \o fr.a \o fy.a \o sd.a,
                b |-> fa.b \o fr.b \o fy.b \o sd.b] :
                fa \in {[h |-> <<>>, a |-> <<>>, b |-> <<>>],
                        [h |-> <<"Funding Amount">>, a |-> <<Str(<<"$", "1">>)>>, b |-> <<Null>>]},
                fr \in {[h |-> <<>>, a |-> <<>>, b |-> <<>>],
                        [h |-> <<"funding_rounds">>, a |-> <<Null>>, b |-> <<Null>>],
                        [h |-> <<"funding_rounds">>, a |-> <<Num(2)>>, b |-> <<Null>>]},
                fy \in {[h |-> <<>>, a |-> <<>>, b |-> <<>>],
                        [h |-> <<"founded_year">>, a |-> <<Null>>, b |-> <<Null>>],
                        [h |-> <<"founded_year">>, a |-> <<Num(2010)>>, b |-> <<Null>>]},
                sd \in {[h |-> <<>>, a |-> <<>>, b |-> <<>>],
                        [h |-> <<"seed", "angel">>, a |-> <<Null, Null>>, b |-> <<Null, Num(1)>>],
                        [h |-> <<"seed", "venture">>, a |-> <<Num(0), Num(1)>>,
                         b |-> <<Num(1), Null>>]}}}

\* Complete, distinct records: funding, rounds and founding year vary.
ScoreChoices ==
    {<<f, r, y, Num(1)>> :
        f \in {Str(<<"1">>), Str(<<"1", "1">>)},
        r \in {Null, Num(1)},
        y \in {Num(current_year), Num(current_year + 1)}}
ScoreTables ==
    {[cols |-> <<"Company Name", "Category", "City", "Funding Amount", "funding_rounds",
                 "founded_year", "seed">>,
      rows |-> [i \in 1..Len(c) |-> <<Str(<<DigitSeq[i]>>), T, N>> \o c[i]]] :
        c \in UNION {[1..n -> ScoreChoices] : n \in 1..MaxRows}}

\* Four records of rising funding and rounds: founding year and seed funding
\* decide the dominant factor of the first.
RankedChoices == {<<y, sd>> : y \in {Num(2010), Num(current_year)}, sd \in {Num(0), Num(1)}}
RankedTables ==
    {[cols |-> <<"Company Name", "Category", "City", "Funding Amount", "funding_rounds",
                 "founded_year", "seed">>,
      rows |-> <<(<<Str(<<"0">>), T, N, Str(<<" ", "-", " ">>), Null>>) \o c[1],
                 (<<Str(<<"1">>), T, N, Str(<<"$", "1">>), Num(1)>>) \o c[2],
                 (<<Str(<<"2">>), T, N, Str(<<"$", "1", "1">>), Num(1)>>) \o c[3],
                 (<<Str(<<"3">>), T, N, Str(<<"$", "1", ",", "1", "1">>), Num(2)>>) \o c[4]>>] :
        c \in [1..4 -> RankedChoices]}

\* -------------------------------------------------------------------- main
Init ==
    /\ pc = "uploaded"
    /\ \/ df \in ParseTables
       \/ df \in DedupTables
       \/ df \in SchemaTables
       \/ df \in ScoreTables
       \/ df \in RankedTables
    /\ cleaned_df = NoTable
    /\ scored_df = NoTable
    /\ err = ""
    /\ scorer_calls = 0

\* cleaned_df = clean_data(df); an exception ends the run.
CleanData ==
    /\ pc = "uploaded"
    /\ \E r \in {clean_data(df)} :
        /\ pc' = IF r.err = "" THEN "cleaned" ELSE "raised"
        /\ err' = r.err
        /\ cleaned_df' = r.df
    /\ df' = [df EXCEPT !.cols = [j \in 1..Len(df.cols) |-> StripHeader(df.cols[j])]]
    /\ UNCHANGED <<scored_df, scorer_calls>>

\* if cleaned_df.empty: st.warning(...); st.stop()
StopEmpty ==
    /\ pc = "cleaned"
    /\ Empty(cleaned_df)
    /\ pc' = "stopped"
    /\ UNCHANGED <<df, cleaned_df, scored_df, err, scorer_calls>>

\* scored_df = score_companies(cleaned_df); an exception ends the run.
ScoreCompanies ==
    /\ pc = "cleaned"
    /\ ~Empty(cleaned_df)
    /\ \E r \in {score_companies(cleaned_df)} :
        /\ pc' = IF r.err = "" THEN "scored" ELSE "raised"
        /\ err' = r.err
        /\ cleaned_df' = r.df
        /\ scored_df' = r.out
    /\ scorer_calls' = scorer_calls + 1
    /\ UNCHANGED df

Next == CleanData \/ StopEmpty \/ ScoreCompanies

Spec == Init /\ [][Next]_vars

\* ------------------------------------------------------------------ claims
\* After score_companies, the frame it was given holds the metric and
\* sub-score columns next to Score and Top Quality.
Rows == 1..NRows(cleaned_df)
Funding(i) == Col(cleaned_df, "Funding Amount")[i]
FundingScore(i) == Col(cleaned_df, "Funding Score")[i]
RoundsScore(i) == Col(cleaned_df, "Rounds Score")[i]
AgeScore(i) == Col(cleaned_df, "Age Score")[i]
FundingTypeScore(i) == Col(cleaned_df, "Funding Type Score")[i]
Score(i) == Col(scored_df, "Score")[i]
TopQuality(i) == Col(scored_df, "Top Quality")[i].s[1]
SubScores(i) == <<FundingScore(i), RoundsScore(i), AgeScore(i), FundingTypeScore(i)>>
Weights == <<W_Funding, W_Rounds, W_Age, W_FundingType>>
Qualities == <<"Funding", "Rounds", "Age", "Funding Type">>
Scored == pc = "scored"

IsMaxFunding(i) == \A k \in Rows : Leq(Funding(k), Funding(i))
TiedAtMax == Cardinality({k \in Rows : IsMaxFunding(k)})

\* C2 as stated: every record whose Funding Amount equals the dataset's
\* maximum has weighted Funding sub-score exactly 50.
C2_MaxFundingScores50 ==
    Scored => \A i \in Rows : IsMaxFunding(i) => Eq(FundingScore(i), Num(50))

\* C2 amended: a record holding the maximum Funding Amount alone has
\* Funding sub-score exactly 50; m records tied at the maximum share the
\* average rank and each has 50 * (n - (m - 1) / 2) / n, below 50 for m > 1.
C2_UniqueMaxFundingScores50 ==
    Scored =>
        \A i \in Rows :
            IsMaxFunding(i) =>
                /\ Eq(FundingScore(i),
                      Rat(50 * (2 * NRows(cleaned_df) - (TiedAtMax - 1)), 2 * NRows(cleaned_df)))
                /\ (TiedAtMax = 1 <=> Eq(FundingScore(i), Num(50)))

\* C2 witness: scored datasets of three records, one alone at the maximum.
C2_Witness ==
    Scored /\ NRows(cleaned_df) = 3 /\ TiedAtMax = 1
    /\ \E i, j \in Rows : Lt(FundingScore(i), FundingScore(j))

\* C4: Top Quality names the sub-metric with the largest weighted value, the
\* earliest in the order Funding, Rounds, Age, Funding Type among equals.
C4_TopQualityFirstMax ==
    Scored =>
        \A i \in Rows :
            \E k \in 1..4 :
                /\ TopQuality(i) = Qualities[k]
                /\ \A m \in 1..4 : Leq(SubScores(i)[m], SubScores(i)[k])
                /\ \A m \in 1..(k - 1) : Lt(SubScores(i)[m], SubScores(i)[k])

\* C4 witness: a record whose largest weighted value is shared by two
\* sub-metrics and whose Top Quality is the earlier of them.
C4_Witness ==
    Scored /\ \E i \in Rows : \E k, m \in 1..4 :
        /\ k < m
        /\ Eq(SubScores(i)[k], SubScores(i)[m])
        /\ \A x \in 1..4 : Leq(SubScores(i)[x], SubScores(i)[k])
        /\ TopQuality(i) = Qualities[k]

\* C10 as stated: the Age that is ranked is never negative, and a record
\* founded after the current year ranks on Age with one founded in it.
C10_AgeNonNegative ==
    Scored => \A i \in Rows : Leq(Num(0), Col(cleaned_df, "Age")[i])

\* C9 as stated: score_companies raises on no dataset clean_data produces.
C9_ScorerNeverRaises == ~(pc = "raised" /\ scorer_calls > 0)

\* C7 as stated: the funding coercion never raises to the caller of
\* clean_data.
C7_CoercionNeverRaises == err # "ValueError"

\* The dataset with record i's Funding Amount replaced by v (to be scored).
Raised(i, v) ==
    SetCol(cleaned_df, "Funding Amount", [k \in Rows |-> IF k = i THEN Num(v) ELSE Funding(k)])
\* Amounts to raise a record to: each amount of the dataset and the next one.
RaisedAmounts == UNION {{Funding(k).v, Funding(k).v + 1} : k \in Rows}

\* C3: raising one record's Funding Amount, the others fixed, never lowers
\* that record's Score and never raises another record's Funding sub-score.
C3_FundingMonotone ==
    Scored =>
        \A i \in Rows : \A v \in RaisedAmounts :
            v > Funding(i).v =>
                \A b \in {Raised(i, v)} : \A f \in {FundingScoreCol(b)} :
                    /\ Leq(Score(i),
                           ScoreCol(f, RoundsScoreCol(b), AgeScoreCol(b), FundingTypeScoreCol(b))[i])
                    /\ \A j \in Rows \ {i} : Leq(f[j], FundingScore(j))

\* C3 witness: a raise that lifts the record's Score and lowers another
\* record's Funding sub-score.
C3_Witness ==
    Scored /\ \E i \in Rows : \E v \in RaisedAmounts :
        /\ v > Funding(i).v
        /\ \E b \in {Raised(i, v)} : \E f \in {FundingScoreCol(b)} :
            /\ Lt(Score(i),
                  ScoreCol(f, RoundsScoreCol(b), AgeScoreCol(b), FundingTypeScoreCol(b))[i])
            /\ \E j \in Rows \ {i} : Lt(f[j], FundingScore(j))

Source == Renamed(df)
\* The records of src with a Company Name, a Category and a City.
Complete(src) == {i \in 1..NRows(src) : \A h \in Mandatory : NotNull(Col(src, h)[i])}
\* Records i and k of src have Company Names equal ignoring case.
SameName(src, i, k) ==
    Lower(Col(src, "Company Name")[i]) = Lower(Col(src, "Company Name")[k])
\* The complete records that no earlier complete record shares a name with.
FirstOfName(src) ==
    CHOOSE f \in {{i \in c : \A k \in c : k < i => ~SameName(src, i, k)} : c \in {Complete(src)}} :
        TRUE

\* C6: after clean_data no two records have Company Names equal ignoring
\* case, and the records are the first complete record of each name, in
\* input order.
C6_FirstOccurrenceWins ==
    pc = "cleaned" =>
        \A src \in {Source} : \A first \in {FirstOfName(src)} :
            /\ \A i, k \in Rows :
                  i # k => Lower(Col(cleaned_df, "Company Name")[i])
                           # Lower(Col(cleaned_df, "Company Name")[k])
            /\ NRows(cleaned_df) = Cardinality(first)
            /\ NRows(cleaned_df) > 0 =>
                  /\ \A h \in Mandatory : Col(cleaned_df, h) = Pick(Col(src, h), first)
                  /\ HasCol(src, "Funding Amount") =>
                        Col(cleaned_df, "Funding Amount")
                        = Pick([i \in 1..NRows(src) |-> Coerce(Col(src, "Funding Amount")[i])],
                               first)

\* C6 witness: two records survive, and a later duplicate of one of them,
\* written in another case, was dropped.
C6_Witness ==
    /\ pc = "cleaned"
    /\ NRows(cleaned_df) = 2
    /\ \E i, k \in Complete(Source) :
          /\ i < k /\ SameName(Source, i, k)
          /\ Col(Source, "Company Name")[i] # Col(Source, "Company Name")[k]

\* C8: the Scorer is invoked at most once, and only when clean_data returned
\* a dataset with at least one record; a run whose cleaning raised or
\* returned no record never invokes it.
C8_ScoreOnlyAfterNonEmptyClean ==
    /\ scorer_calls <= 1
    /\ scorer_calls > 0 => clean_data(df).err = "" /\ NRows(clean_data(df).df) > 0
    /\ pc = "stopped" => scorer_calls = 0

\* C8 witness: a run that stopped on an empty cleaned dataset without
\* scoring.
C8_Witness == pc = "stopped" /\ scorer_calls = 0 /\ NRows(df) > 0 /\ NRows(cleaned_df) = 0

====
